---- MODULE Spec2Model ----
(***************************************************************************)
(* Reception tracker of ScannerPi (scanmon/glgmonitor.py): the GLGMonitor  *)
(* state machine fed by GLG status polls, the "Reception" history table    *)
(* and the "LastSeen" index, together with the poll re-arming              *)
(* (start / stop / delay_glg / send_glg).                                  *)
(*                                                                         *)
(* Time is counted in whole seconds.  A poll is a decoded GLG Response     *)
(* [TIME, NAME, SQL, MUT]; NAME is the triple <<NAME1, NAME2, NAME3>>.     *)
(* Every sqlite statement may raise sqlite3.Error; the statement that      *)
(* raises during one poll is the input "fail".                             *)
(*                                                                         *)
(* The watcher table of the Scanner (scanmon/scanner/__init__.py:          *)
(* watch_command / read_scanner, with the hash-based equality of Command)  *)
(* is specified on its own in SpecScanner.                                 *)
(***************************************************************************)
EXTENDS Integers, Sequences, FiniteSets, Bags, TLC

VARIABLES state,         \* ReceivingState.state
          reception,     \* GLGMonitor.reception (None = the record with id 0)
          History,       \* rows of the "Reception" table, in insertion order
          LastSeen,      \* the "LastSeen" table: name triple -> LastTime
          squelch,       \* GLGMonitor.squelch
          mute,          \* GLGMonitor.mute
          system_name,   \* GLGMonitor.system_name, group_name, channel_name
          receive_time,  \* GLGMonitor.receive_time
          running,       \* GLGMonitor.running
          send_count,    \* GLGMonitor.send_count
          alarms,        \* number of pending set_alarm_in(send_glg) alarms
          pending,       \* GLG commands written to the scanner, not yet answered
          now,           \* the clock read by Response.__init__ (TIME)
          nextid,        \* identity of the next Reception object
          polls,         \* number of process() calls so far
          failures,      \* number of process() calls that raised
          response_queue,\* Scanner._response_queue: command name -> watchers
          watched,       \* the Command of the last watch_command call
          response,      \* CMD of the last Response read_scanner dispatched
          invoked,       \* bag of the watchers it called for that Response
          read_buffer,   \* Scanner._read_buffer: the complete lines in it
          result,        \* the Response built by the last Response(line)
          error,         \* the exception the last call raised ("" = none)
          devs,          \* the candidate devices given to Scanner(device)
          device,        \* Scanner.device
          writer,        \* per thread: where it is in send_command
          iolock,        \* Scanner.iolock (RLock): owner and count
          wire,          \* the bytes written to the serial port, in order
          assigned,      \* the values given so far to a ReceivingState
          titler,        \* the Titler thread, its flag and its queue
          registry       \* the sets of _response_queue as objects, and
                         \* each thread's place in watch_command

vars == <<state, reception, History, LastSeen, squelch, mute, system_name,
          receive_time, running, send_count, alarms, pending, now, nextid,
          polls, failures, response_queue, watched, response, invoked,
          read_buffer, result, error, devs, device, writer, iolock, wire,
          assigned, titler, registry>>

----------------------------------------------------------------------------
(* Bounds *)

Horizon == 17

MaxFailures == 1

MaxPending == 1

MaxWatchers == 3

MaxDevs == 4

MaxAssign == 3

MaxSends == 2

MaxLines == 2

MaxTokens == 24

MaxQueue == 3

MaxCalls == 1

(* Program constants *)

IDLETIME == 11

SecondsPerDay == 86400

IDLE == "IDLE"

RECEIVING == "RECEIVING"

TIMEOUT == "TIMEOUT"

States == {IDLE, RECEIVING, TIMEOUT}

(* Name triples <<NAME1, NAME2, NAME3>> a poll can carry *)
SysA == <<"A", "G", "C">>

SysB == <<"B", "G", "C">>

Systems == {SysA, SysB}

(* Seconds between two consecutive polls *)
Steps == {5, 6, SecondsPerDay}

(* The days the clock covers; polls arrive in the first Horizon seconds of *)
(* a day                                                                   *)
Days == {0, 1}

NoTime == -1

NoSysId == "None"

----------------------------------------------------------------------------
(* Reception objects *)

\* Reception.sys_id: '-'.join((system, group, channel))
SysId(name) == name[1] \o "-" \o name[2] \o "-" \o name[3]

None ==
  [id |-> 0, name |-> SysA, starttime |-> 0, duration |-> 0,
   last_active_time |-> 0, last_active_state |-> FALSE, lastseen |-> NoTime]

\* Reception.__init__
Reception(glgresp, id) ==
  [id |-> id, name |-> glgresp.NAME, starttime |-> glgresp.TIME,
   duration |-> 0, last_active_time |-> glgresp.TIME,
   last_active_state |-> TRUE, lastseen |-> NoTime]

\* the row INSERTed into "Reception" (a copy of the object's fields)
Row(r) ==
  [id |-> r.id, name |-> r.name, starttime |-> r.starttime,
   duration |-> r.duration]

\* timedelta.seconds: the seconds component of a (normalised) timedelta
Seconds(delta) == delta % SecondsPerDay

\* timedelta.total_seconds()
TotalSeconds(delta) == delta

----------------------------------------------------------------------------
(* Scanner: commands and the table of response watchers *)

\* the command strings given to Command(); none of them has arguments
CmdStrings == {"glg", "*"}

\* the callbacks a Command can carry, named by what they return
Callbacks == {"once", "keep"}

\* the userdata objects; a callback can be passed as userdata too
UserData == {"None"} \cup Callbacks

\* Response.CMD of the lines the scanner sends
ResponseCmds == {"GLG", "STS"}

\* the keys looked up in Scanner._response_queue
Names == ResponseCmds \cup {"*", "", "sts"}

\* str.upper on the command strings
Upper(str) == IF str = "glg" THEN "GLG" ELSE str

\* Command.__init__: cmd is the upper-cased text before the first comma
Command(cmdstring, callback, userdata) ==
  [cmd |-> Upper(cmdstring), cmdstring |-> cmdstring,
   callback |-> callback, userdata |-> userdata]

Commands ==
  {Command(s, cb, ud) : s \in CmdStrings, cb \in Callbacks \cup {"None"},
                        ud \in UserData}

NoCommand == Command("*", "None", "None")

\* the value the callback of a watcher returns: True = remove the watcher
Returns(callback) == callback \in {"once", "chain"}

\* a ^ b on hash values; the hash of an object is the set holding the
\* object and ^ the symmetric difference, so that two hash values are equal
\* exactly when ^ makes them equal for every choice of the objects' hashes
Xor(a, b) == (a \ b) \cup (b \ a)

\* Command.__hash__
Hash(c) ==
  Xor(Xor(Xor({c.cmd}, {c.cmdstring}), {c.callback}), {c.userdata})

\* Command.__eq__
Eq(c, other) == Hash(c) = Hash(other)

\* set.add with Command.__hash__ and Command.__eq__
add(clist, command) ==
  IF \E e \in clist : Eq(e, command) THEN clist ELSE clist \cup {command}

\* set.remove with Command.__hash__ and Command.__eq__
remove(clist, entry) == {e \in clist : ~Eq(e, entry)}

\* Scanner.watch_command
watch_command(queue, command) ==
  IF command.callback # "None"
  THEN [queue EXCEPT ![command.cmd] = add(queue[command.cmd], command)]
  ELSE queue

\* ResponseQueue[key]: the stored set, or a new empty set from __missing__
getitem(queue, key) == IF key \in DOMAIN queue THEN queue[key] ELSE {}

\* read_scanner without the default: always the watchers of the command
clist_key_nodefault(queue, cmd) == cmd

\* Scanner.read_scanner, lines 288-291: the key of the watchers called
clist_key(queue, cmd) == IF getitem(queue, cmd) = {} THEN "*" ELSE cmd

\* the loop body that removes the watchers whose callback returns False
call_entry_inverted(entry, st) ==
  [clist |-> IF Returns(entry.callback) THEN st.clist
             ELSE remove(st.clist, entry),
   calls |-> st.calls (+) SetToBag({entry})]

\* Scanner.read_scanner, lines 294-297: the body of the for loop
call_entry(entry, st) ==
  [clist |-> IF Returns(entry.callback) THEN remove(st.clist, entry)
             ELSE st.clist,
   calls |-> st.calls (+) SetToBag({entry})]

RECURSIVE for_entries(_, _)

\* Scanner.read_scanner, line 293: for entry in clist.copy()
for_entries(copy, st) ==
  IF copy = {} THEN st
  ELSE LET entry == CHOOSE e \in copy : TRUE
       IN  for_entries(copy \ {entry}, call_entry(entry, st))

\* Scanner.read_scanner for one decoded line whose Response.CMD is cmd
read_scanner(queue, cmd) ==
  LET key == clist_key(queue, cmd)
      st == for_entries(queue[key], [clist |-> queue[key], calls |-> EmptyBag])
  IN  [queue |-> [queue EXCEPT ![key] = st.clist], invoked |-> st.calls]

\* a callback that registers a further watcher: "chain" watches the same
\* command string with the callback "once", passing its userdata on, and
\* returns True
ChainCommands ==
  {Command("glg", cb, ud) : cb \in {"chain", "keep"}, ud \in UserData}

\* the Command the callback of entry passes to watch_command
registers(entry) == Command(entry.cmdstring, "once", entry.userdata)

\* entry.callback(entry, response): what the call does to the watcher table
call_callback(queue, entry) ==
  IF entry.callback = "chain" THEN watch_command(queue, registers(entry))
  ELSE queue

\* Scanner.read_scanner, lines 294-297, for callbacks that may register
\* watchers: clist is the set stored under st.key
dispatch_entry(entry, st) ==
  LET called == call_callback(st.queue, entry)
  IN  [st EXCEPT
         !.queue = IF Returns(entry.callback)
                   THEN [called EXCEPT ![st.key] = remove(called[st.key],
                                                          entry)]
                   ELSE called,
         !.calls = st.calls (+) SetToBag({entry})]

RECURSIVE dispatch_entries(_, _)

\* Scanner.read_scanner, line 293: for entry in clist.copy(); the order of
\* the calls makes no difference for the callbacks of ChainCommands
dispatch_entries(copy, st) ==
  IF copy = {} THEN st
  ELSE LET entry == CHOOSE e \in copy : TRUE
       IN  dispatch_entries(copy \ {entry}, dispatch_entry(entry, st))

\* Scanner.read_scanner for one decoded line whose Response.CMD is cmd,
\* with callbacks that may register watchers
dispatch(queue, cmd) ==
  LET key == clist_key(queue, cmd)
  IN  dispatch_entries(queue[key],
                       [queue |-> queue, key |-> key, calls |-> EmptyBag])

----------------------------------------------------------------------------
(* formatter: the decoding of a line into a Response.  A line is the       *)
(* sequence of its characters, a token a sequence of characters too.       *)

\* Response(None)
NoneInput == <<"None">>

\* the lines the scanner sends, without the terminator
Lines ==
  {<<"G", "L", "G", ",", "O", "K">>,
   <<"g", "l", "g", ",", "N", "G">>,
   <<"G", "L", "G", ",", "0", ",", "1">>,
   <<"S", "T", "S", ",", "0", ",", "a">>,
   <<"s", "t", "s", ",", "0", ",", "a">>,
   <<"E", "R", "R">>,
   <<>>}

\* what Response() is called with
Inputs == Lines \cup {NoneInput, <<"\r">>}

LowerCase == <<"a", "g", "l", "s", "t">>

UpperCase == <<"A", "G", "L", "S", "T">>

\* str.upper on one character
upper_char(c) ==
  IF \E i \in DOMAIN LowerCase : LowerCase[i] = c
  THEN UpperCase[CHOOSE i \in DOMAIN LowerCase : LowerCase[i] = c]
  ELSE c

\* str.upper
upper(chars) == [i \in DOMAIN chars |-> upper_char(chars[i])]

RECURSIVE Str(_)

\* the str made of the characters
Str(chars) == IF chars = <<>> THEN "" ELSE chars[1] \o Str(Tail(chars))

RECURSIVE rstrip(_, _)

\* str.rstrip(c)
rstrip(chars, c) ==
  IF chars # <<>> /\ chars[Len(chars)] = c
  THEN rstrip(SubSeq(chars, 1, Len(chars) - 1), c)
  ELSE chars

\* bytes.partition(sep) at the first sep: the part before and the part after
partition(chars, sep) ==
  LET i == CHOOSE k \in DOMAIN chars :
             chars[k] = sep /\ \A j \in 1..(k - 1) : chars[j] # sep
  IN  <<SubSeq(chars, 1, i - 1), SubSeq(chars, i + 1, Len(chars))>>

RECURSIVE split(_, _)

\* str.split(sep)
split(chars, sep) ==
  IF \E k \in DOMAIN chars : chars[k] = sep
  THEN LET p == partition(chars, sep)
       IN  <<p[1]>> \o split(p[2], sep)
  ELSE <<chars>>

\* Response.OK, NG, FER, ORER
AckCodes == {"OK", "NG", "FER", "ORER"}

DECODEERROR == "DECODEERROR"

RESP == "RESP"

\* formatter.GLG.VARLIST
GLG_VARLIST ==
  <<"CMD", "FRQ_TGID", "MOD", "ATT", "CTCSS_DCS", "NAME1", "NAME2", "NAME3",
    "SQL", "MUT", "SYS_TAG", "CHAN_TAG", "P25NAC">>

\* formatter.STS._VARLIST
STS_VARLIST ==
  <<"CMD", "DSP_FORM",
    "L1_CHAR", "L1_MODE", "L2_CHAR", "L2_MODE", "L3_CHAR", "L3_MODE",
    "L4_CHAR", "L4_MODE", "L5_CHAR", "L5_MODE", "L6_CHAR", "L6_MODE",
    "L7_CHAR", "L7_MODE", "L8_CHAR", "L8_MODE",
    "SQL", "MUT", "RSV", "BAT", "WAT", "SIG_LVL", "BK_COLOR", "BK_DIMMER">>

\* STS._DSP_FORM_INDEX, counted from 0 as in the source
DSP_FORM_INDEX == 1

\* STS._SQL_INDX, counted from 0 as in the source
SQL_INDX == 18

\* the modules import_module finds in the formatter package: whether they
\* have a decode function, and their VARLIST
Handlers ==
  [GLG |-> [decode |-> FALSE, VARLIST |-> GLG_VARLIST],
   STS |-> [decode |-> TRUE, VARLIST |-> <<>>],
   VER |-> [decode |-> FALSE, VARLIST |-> <<"CMD", "VER">>],
   MDL |-> [decode |-> FALSE, VARLIST |-> <<"CMD", "MDL">>]]

\* the attributes of a Response whose names are not upper case
LowerCaseNames == {"response", "parts", "display", "status"}

\* name == name.upper() for the attribute names that occur: the names of
\* the VARLISTs and 'VAR' are upper case and stay so with digits appended
name_is_upper(name) == name \notin LowerCaseNames

\* a Response: the argument of the call, how the call ended, and the
\* upper-case attributes of the object
NewResponse(input) ==
  [input |-> input, outcome |-> "response", CMD |-> "?", status |-> "",
   attrs |-> [n \in {"CMD"} |-> "?"]]

\* no call of Response() yet
NoResponse == [NewResponse(<<>>) EXCEPT !.outcome = "none"]

\* setattr(response, var, val)
setattr(r, var, val) ==
  LET a == [n \in DOMAIN r.attrs \cup {var} |->
              IF n = var THEN val ELSE r.attrs[n]]
  IN  [r EXCEPT !.attrs = a, !.CMD = a["CMD"]]

\* hasattr(response, name): the attribute is set, or Response.__getattr__
\* returns None for it instead of raising AttributeError
hasattr(r, name) == name \in DOMAIN r.attrs \/ name_is_upper(name)

\* raise ScannerDecodeError: no object is made
raise_ScannerDecodeError(r) ==
  [r EXCEPT !.outcome = "ScannerDecodeError", !.CMD = "?", !.status = "",
            !.attrs = [n \in {"CMD"} |-> "?"]]

\* the call does not return
never_returns(r) == [r EXCEPT !.outcome = "hang"]

\* gendecode, lines 26-28: the numbers incr for which the while loop ends.
\* At most Cardinality(DOMAIN r.attrs) names are set, so when no number up
\* to one more than that ends the loop, hasattr is true by __getattr__,
\* which is then so for every larger number: the loop does not end
loop_ends(r, var) ==
  {incr \in 1..(Cardinality(DOMAIN r.attrs) + 1) :
     ~hasattr(r, var \o ToString(incr))}

RECURSIVE gendecode_from(_, _, _, _)

\* gendecode, lines 23-31, from the token at position i on
gendecode_from(r, parts, VARLIST, i) ==
  IF i > Len(parts) THEN r
  ELSE LET var == IF i <= Len(VARLIST) THEN VARLIST[i] ELSE "VAR"
       IN  IF ~hasattr(r, var)
           THEN gendecode_from(setattr(r, var, Str(parts[i])), parts,
                               VARLIST, i + 1)
           ELSE IF loop_ends(r, var) = {}
           THEN never_returns(r)
           ELSE LET incr == CHOOSE k \in loop_ends(r, var) :
                              \A j \in loop_ends(r, var) : k <= j
                IN  gendecode_from(
                      setattr(r, var \o ToString(incr), Str(parts[i])),
                      parts, VARLIST, i + 1)

\* formatter.gendecode
gendecode(r, parts, VARLIST) == gendecode_from(r, parts, VARLIST, 1)

RECURSIVE STS_setattrs(_, _, _, _)

\* STS.decode, lines 35-37, from the token at position i on
STS_setattrs(r, parts, varlist, i) ==
  IF i > Len(parts) THEN r
  ELSE LET var == IF i <= Len(varlist) THEN varlist[i] ELSE "VAR"
       IN  STS_setattrs(setattr(r, var, Str(parts[i])), parts, varlist,
                        i + 1)

\* a del statement that removes nothing
del_slice_nothing(varlist, a, b) == varlist

\* del varlist[a:b] for 0 <= a and 0 <= b <= len(varlist)
del_slice(varlist, a, b) ==
  IF a >= b THEN varlist
  ELSE SubSeq(varlist, 1, a) \o SubSeq(varlist, b + 1, Len(varlist))

\* STS.decode
STS_decode(r, parts) ==
  LET varlist == del_slice(STS_VARLIST,
                           1 + DSP_FORM_INDEX
                             + Len(parts[DSP_FORM_INDEX + 1]) * 2,
                           SQL_INDX)
  IN  STS_setattrs(r, parts, varlist, 1)

\* a test that lets every line through
too_few_never(parts) == FALSE

\* Response.__init__, line 110: len(self.parts) < 2
too_few(parts) == Len(parts) < 2

\* a null response that raises
null_response_raises(r) == raise_ScannerDecodeError(r)

\* Response.__init__, lines 144-147: the null response
null_response(r) ==
  [setattr(r, "CMD", "") EXCEPT !.status = DECODEERROR]

\* Response.__init__, lines 114-138, for a line of two tokens or more
decode_parts(r0, parts) ==
  LET r == setattr(r0, "CMD", Str(upper(parts[1])))
  IN  IF Len(parts) = 2 /\ Str(parts[2]) \in AckCodes
      THEN [setattr(r, "RESP", Str(parts[2])) EXCEPT
              !.status = Str(parts[2])]
      ELSE LET s == [r EXCEPT !.status = RESP]
           IN  IF r.CMD \in DOMAIN Handlers
               THEN IF Handlers[r.CMD].decode
                    THEN STS_decode(s, parts)
                    ELSE gendecode(s, parts, Handlers[r.CMD].VARLIST)
               ELSE gendecode(s, parts, <<"CMD">>)

\* Response.__init__
Response(input) ==
  LET r == NewResponse(input)
  IN  IF input = NoneInput THEN raise_ScannerDecodeError(r)
      ELSE IF input = <<>> THEN null_response(r)
      ELSE LET parts == split(rstrip(input, "\r"), ",")
           IN  IF too_few(parts) THEN raise_ScannerDecodeError(r)
               ELSE decode_parts(r, parts)

RECURSIVE read_lines(_, _)

\* Scanner.read_scanner, lines 283-297: the while loop.  st holds the
\* buffer, the watcher table, the last Response() call, the CMD of the last
\* line dispatched and the watchers called for the last line
read_lines(st, sep) ==
  IF \A k \in DOMAIN st.buffer : st.buffer[k] # sep
  THEN st
  ELSE LET p == partition(st.buffer, sep)
           r == Response(p[1])
           next == [st EXCEPT !.buffer = p[2], !.result = r,
                              !.invoked = EmptyBag]
       IN  IF r.outcome = "ScannerDecodeError"
           THEN [next EXCEPT !.error = "ScannerDecodeError"]
           ELSE IF r.outcome = "hang"
           THEN [next EXCEPT !.error = "hang"]
           ELSE LET d == read_scanner(st.queue, r.CMD)
                IN  read_lines([next EXCEPT !.queue = d.queue,
                                            !.invoked = d.invoked,
                                            !.response = r.CMD], sep)

RECURSIVE Stream(_, _)

\* the bytes of the lines, each followed by the terminator
Stream(lines, sep) ==
  IF lines = <<>> THEN <<>>
  ELSE lines[1] \o <<sep>> \o Stream(Tail(lines), sep)

----------------------------------------------------------------------------
(* Scanner.__init__: the choice of the device *)

\* what os.stat and os.access find at a candidate path
Kinds == {"missing", "file", "chr", "chr_rw"}

NoDevice == 0

\* os.stat(dev) raises OSError when nothing is at the path
stat_raises(kind) == kind = "missing"

\* stat.S_ISCHR(os.stat(dev).st_mode) and os.access(dev, os.W_OK)
suitable(kind) == kind = "chr_rw"

RECURSIVE find_device(_, _)

\* Scanner.__init__, lines 213-221: for dev in devs, from candidate i on;
\* the device is named by its position in devs
find_device(candidates, i) ==
  IF i > Len(candidates)
  THEN [device |-> NoDevice, error |-> "IOError"]
  ELSE IF stat_raises(candidates[i])
  THEN [device |-> NoDevice, error |-> "OSError"]
  ELSE IF suitable(candidates[i])
  THEN [device |-> i, error |-> ""]
  ELSE find_device(candidates, i + 1)

\* Scanner.__init__, lines 206-221: the device Scanner(device=candidates)
\* uses, or the exception it raises
select_device(candidates) == find_device(candidates, 1)

RECURSIVE SeqsUpTo(_, _)

\* the sequences over S of length 1..n
SeqsUpTo(S, n) ==
  IF n = 0 THEN {}
  ELSE {<<x>> : x \in S}
       \cup {Append(q, x) : q \in SeqsUpTo(S, n - 1), x \in S}

----------------------------------------------------------------------------
(* Scanner.send_command and Scanner._writeline: the writers *)

\* the execution contexts that call send_command
Threads == {1, 2}

\* a thread that is in no call of watch_command
NoCall ==
  [at |-> "idle", method |-> "", command |-> NoCommand, clist |-> 0,
   returned |-> {}]

\* a context that is not inside send_command
Idle == [at |-> "idle", line |-> <<>>, cmdline |-> NoCommand]

\* _NEWLINE
NEWLINE == <<"\r">>

\* bytes(line, 'UTF-8', 'ignore') for the command strings
Bytes(line) == IF line = "glg" THEN <<"g", "l", "g">> ELSE <<"*">>

\* a lock that any context may take at any time
may_acquire_any(lock, t) == TRUE

\* RLock.acquire returns at once for the owner and when the lock is free,
\* and blocks otherwise
may_acquire(lock, t) == lock.owner \in {0, t}

\* RLock.acquire, once it does not block
acquire(lock, t) == [owner |-> t, count |-> lock.count + 1]

\* RLock.release
release(lock) ==
  IF lock.count = 1 THEN [owner |-> 0, count |-> 0]
  ELSE [lock EXCEPT !.count = lock.count - 1]

----------------------------------------------------------------------------
(* ReceivingState *)

\* the values a caller may assign to ReceivingState.state
StateValues == States \cup {"*INIT*", "Wrong"}

\* ReceivingState.is_idle
is_idle(st) == st = IDLE

\* ReceivingState.is_receiving
is_receiving(st) == st = RECEIVING

\* ReceivingState.is_timeout
is_timeout(st) == st = TIMEOUT

\* a state setter that accepts every value
state_setter_any(st, newstate) == [state |-> newstate, error |-> ""]

\* ReceivingState.state (setter) on an instance whose state is st
state_setter(st, newstate) ==
  IF newstate \in States
  THEN [state |-> newstate, error |-> ""]
  ELSE [state |-> st, error |-> "ValueError"]

\* ReceivingState.__init__(initialstate)
ReceivingState(initialstate) ==
  state_setter("*INIT*", IF initialstate = "None" THEN IDLE ELSE initialstate)

----------------------------------------------------------------------------
(* GLGMonitor: the monitor object g is the record of its attributes *)

\* is_active as the squelch-and-not-muted test of the early revision
is_active_muted(g) == g.squelch /\ ~g.mute

\* GLGMonitor.is_active
is_active(g) == g.squelch

\* GLGMonitor.sys_id
sys_id(g) == IF is_active(g) THEN SysId(g.system_name) ELSE NoSysId

\* GLGMonitor.parse_response
parse_response(g, glgresp) ==
  [g EXCEPT !.receive_time = glgresp.TIME,
            !.system_name = glgresp.NAME,
            !.squelch = (glgresp.SQL = "1"),
            !.mute = (glgresp.MUT = "1")]

\* __initdb__ that does not build the LastSeen table
initdb_noseed(H) == [n \in Systems |-> NoTime]

\* GLGMonitor.__initdb__: the LastSeen table built from the "Reception"
\* table, MAX("Starttime") GROUP BY "System", "Group", "Channel"
initdb(H) ==
  [n \in Systems |->
     LET rows == {i \in DOMAIN H : H[i].name = n}
     IN  IF rows = {} THEN NoTime
         ELSE CHOOSE t \in {H[i].starttime : i \in rows} :
                \A i \in rows : H[i].starttime <= t]

\* create_reception that forgets to set the state
create_reception_nostate(g, glgresp, fail) ==
  LET rec == Reception(glgresp, g.nextid)
  IN  IF fail = "lastseen"
      THEN [g EXCEPT !.raised = TRUE]
      ELSE [g EXCEPT !.LastSeen[rec.name] = rec.starttime,
                     !.nextid = g.nextid + 1,
                     !.ret = [rec EXCEPT !.lastseen = g.LastSeen[rec.name]]]

\* create_reception that leaves the LastSeen table alone
create_reception_nolastseen(g, glgresp, fail) ==
  LET g1 == [g EXCEPT !.state = RECEIVING]
      rec == Reception(glgresp, g.nextid)
  IN  IF fail = "lastseen"
      THEN [g1 EXCEPT !.raised = TRUE]
      ELSE [g1 EXCEPT !.nextid = g.nextid + 1,
                      !.ret = [rec EXCEPT !.lastseen = g.LastSeen[rec.name]]]

\* create_reception that reads LastTime after updating it
create_reception_readafter(g, glgresp, fail) ==
  LET g1 == [g EXCEPT !.state = RECEIVING]
      rec == Reception(glgresp, g.nextid)
  IN  IF fail = "lastseen"
      THEN [g1 EXCEPT !.raised = TRUE]
      ELSE [g1 EXCEPT !.LastSeen[rec.name] = rec.starttime,
                      !.nextid = g.nextid + 1,
                      !.ret = [rec EXCEPT !.lastseen = rec.starttime]]

\* GLGMonitor.create_reception; the caller assigns g.ret to self.reception
create_reception(g, glgresp, fail) ==
  LET g1 == [g EXCEPT !.state = RECEIVING]
      rec == Reception(glgresp, g.nextid)
  IN  IF fail = "lastseen"
      THEN [g1 EXCEPT !.raised = TRUE]
      ELSE [g1 EXCEPT !.LastSeen[rec.name] = rec.starttime,
                      !.nextid = g.nextid + 1,
                      !.ret = [rec EXCEPT !.lastseen = g.LastSeen[rec.name]]]

\* write_database that skips the INSERT
write_database_noinsert(g, glgresp, fail) ==
  IF g.reception = None \/ fail = "insert"
  THEN [g EXCEPT !.raised = TRUE]
  ELSE IF is_active(g)
       THEN LET g2 == create_reception(g, glgresp, fail)
            IN  IF g2.raised THEN g2
                ELSE [g2 EXCEPT !.reception = g2.ret, !.state = RECEIVING]
       ELSE [g EXCEPT !.reception = None, !.state = IDLE]

\* write_database that always goes idle after the INSERT
write_database_idle(g, glgresp, fail) ==
  IF g.reception = None \/ fail = "insert"
  THEN [g EXCEPT !.raised = TRUE]
  ELSE [g EXCEPT !.History = Append(g.History, Row(g.reception)),
                 !.reception = None, !.state = IDLE]

\* GLGMonitor.write_database
write_database(g, glgresp, fail) ==
  IF g.reception = None \/ fail = "insert"
  THEN [g EXCEPT !.raised = TRUE]
  ELSE LET g1 == [g EXCEPT !.History = Append(g.History, Row(g.reception))]
       IN  IF is_active(g1)
           THEN LET g2 == create_reception(g1, glgresp, fail)
                IN  IF g2.raised THEN g2
                    ELSE [g2 EXCEPT !.reception = g2.ret, !.state = RECEIVING]
           ELSE [g1 EXCEPT !.reception = None, !.state = IDLE]

\* accumulate_time that finalizes at once when the poll is inactive
accumulate_time_notimeout(g, glgresp, fail) ==
  IF g.reception = None
  THEN [g EXCEPT !.raised = TRUE]
  ELSE
    LET samesystem == sys_id(g) = SysId(g.reception.name)
        g1 == IF g.reception.last_active_state \/ samesystem
              THEN [g EXCEPT !.reception.duration =
                       Seconds(g.receive_time - g.reception.starttime)]
              ELSE g
        g2 == [g1 EXCEPT !.reception.last_active_state = is_active(g)]
    IN  IF is_active(g2)
        THEN LET g3 == [g2 EXCEPT !.state = RECEIVING]
             IN  IF samesystem
                 THEN [g3 EXCEPT !.reception.last_active_time = g.receive_time]
                 ELSE write_database(g3, glgresp, fail)
        ELSE write_database(g2, glgresp, fail)

\* accumulate_time that extends the duration for the same system only
accumulate_time_sameonly(g, glgresp, fail) ==
  IF g.reception = None
  THEN [g EXCEPT !.raised = TRUE]
  ELSE
    LET samesystem == sys_id(g) = SysId(g.reception.name)
        g1 == IF samesystem
              THEN [g EXCEPT !.reception.duration =
                       Seconds(g.receive_time - g.reception.starttime)]
              ELSE g
        g2 == [g1 EXCEPT !.reception.last_active_state = is_active(g)]
    IN  IF is_active(g2)
        THEN LET g3 == [g2 EXCEPT !.state = RECEIVING]
             IN  IF samesystem
                 THEN [g3 EXCEPT !.reception.last_active_time = g.receive_time]
                 ELSE write_database(g3, glgresp, fail)
        ELSE [g2 EXCEPT !.state = TIMEOUT]

\* accumulate_time that extends the duration on every call
accumulate_time_always(g, glgresp, fail) ==
  IF g.reception = None
  THEN [g EXCEPT !.raised = TRUE]
  ELSE
    LET samesystem == sys_id(g) = SysId(g.reception.name)
        g1 == [g EXCEPT !.reception.duration =
                 Seconds(g.receive_time - g.reception.starttime)]
        g2 == [g1 EXCEPT !.reception.last_active_state = is_active(g)]
    IN  IF is_active(g2)
        THEN LET g3 == [g2 EXCEPT !.state = RECEIVING]
             IN  IF samesystem
                 THEN [g3 EXCEPT !.reception.last_active_time = g.receive_time]
                 ELSE write_database(g3, glgresp, fail)
        ELSE [g2 EXCEPT !.state = TIMEOUT]

\* GLGMonitor.accumulate_time
accumulate_time(g, glgresp, fail) ==
  IF g.reception = None
  THEN [g EXCEPT !.raised = TRUE]
  ELSE
    LET samesystem == sys_id(g) = SysId(g.reception.name)
        g1 == IF g.reception.last_active_state \/ samesystem
              THEN [g EXCEPT !.reception.duration =
                       Seconds(g.receive_time - g.reception.starttime)]
              ELSE g
        g2 == [g1 EXCEPT !.reception.last_active_state = is_active(g)]
    IN  IF is_active(g2)
        THEN LET g3 == [g2 EXCEPT !.state = RECEIVING]
             IN  IF samesystem
                 THEN [g3 EXCEPT !.reception.last_active_time = g.receive_time]
                 ELSE write_database(g3, glgresp, fail)
        ELSE [g2 EXCEPT !.state = TIMEOUT]

\* process with the timeout test >= instead of >
process_state_ge(g0, glgresp, fail) ==
  LET g == parse_response(g0, glgresp)
  IN  IF g.state = IDLE
      THEN IF is_active(g)
           THEN LET g1 == create_reception(g, glgresp, fail)
                IN  IF g1.raised THEN g1 ELSE [g1 EXCEPT !.reception = g1.ret]
           ELSE g
      ELSE IF g.state = RECEIVING
      THEN accumulate_time(g, glgresp, fail)
      ELSE IF g.reception = None
      THEN [g EXCEPT !.raised = TRUE]
      ELSE LET time_exceeded ==
                 TotalSeconds(glgresp.TIME - g.reception.last_active_time)
                   >= g.idletime
           IN  IF is_active(g) \/ ~time_exceeded
               THEN accumulate_time(g, glgresp, fail)
               ELSE write_database(g, glgresp, fail)

\* GLGMonitor.process, lines 477-502: the state machine
process_state(g0, glgresp, fail) ==
  LET g == parse_response(g0, glgresp)
  IN  IF g.state = IDLE
      THEN IF is_active(g)
           THEN LET g1 == create_reception(g, glgresp, fail)
                IN  IF g1.raised THEN g1 ELSE [g1 EXCEPT !.reception = g1.ret]
           ELSE g
      ELSE IF g.state = RECEIVING
      THEN accumulate_time(g, glgresp, fail)
      ELSE IF g.reception = None
      THEN [g EXCEPT !.raised = TRUE]
      ELSE LET time_exceeded ==
                 TotalSeconds(glgresp.TIME - g.reception.last_active_time)
                   > g.idletime
           IN  IF is_active(g) \/ ~time_exceeded
               THEN accumulate_time(g, glgresp, fail)
               ELSE write_database(g, glgresp, fail)

\* process() that schedules the next poll whether or not it is running
process_rearms(g0, glgresp, fail) ==
  LET g == process_state(g0, glgresp, fail)
  IN  IF g.raised THEN g
      ELSE LET c == IF g.send_count - 1 < 0 THEN 0 ELSE g.send_count - 1
           IN  [g EXCEPT !.send_count = c,
                         !.alarms = IF c = 0
                                    THEN g.alarms + 1 ELSE g.alarms]

\* GLGMonitor.process, lines 504-511: the send count and the re-arming
process(g0, glgresp, fail) ==
  LET g == process_state(g0, glgresp, fail)
  IN  IF g.raised THEN g
      ELSE LET c == IF g.send_count - 1 < 0 THEN 0 ELSE g.send_count - 1
           IN  [g EXCEPT !.send_count = c,
                         !.alarms = IF c = 0 /\ g.running
                                    THEN g.alarms + 1 ELSE g.alarms]

----------------------------------------------------------------------------
(* The state machine *)

Self ==
  [state |-> state, reception |-> reception, History |-> History,
   LastSeen |-> LastSeen, squelch |-> squelch, mute |-> mute,
   system_name |-> system_name, receive_time |-> receive_time,
   running |-> running, send_count |-> send_count, alarms |-> alarms,
   idletime |-> IDLETIME, nextid |-> nextid, raised |-> FALSE, ret |-> None]

\* GLGMonitor.__init__ on a new database
Init ==
  /\ state = IDLE
  /\ reception = None
  /\ History = <<>>
  /\ LastSeen = [n \in Systems |-> NoTime]
  /\ squelch = FALSE
  /\ mute = FALSE
  /\ system_name = SysA
  /\ receive_time = 0
  /\ running = FALSE
  /\ send_count = 0
  /\ alarms = 0
  /\ pending = 0
  /\ now = 0
  /\ nextid = 1
  /\ polls = 0
  /\ failures = 0
  /\ response_queue = [n \in Names |-> {}]
  /\ watched = NoCommand
  /\ response = ""
  /\ invoked = EmptyBag
  /\ read_buffer = <<>>
  /\ result = NoResponse
  /\ error = ""
  /\ devs = <<>>
  /\ device = NoDevice
  /\ writer = [t \in Threads |-> Idle]
  /\ iolock = [owner |-> 0, count |-> 0]
  /\ wire = <<>>
  /\ assigned = <<>>
  /\ titler = [at |-> "start", running |-> FALSE, title_queue |-> <<>>,
               requested |-> FALSE]
  /\ registry = [sets |-> <<>>, keys |-> [key \in Names |-> 0],
                 calls |-> [t \in Threads |-> NoCall]]

Tracker == <<state, reception, History, LastSeen, squelch, mute, system_name,
             receive_time, now, nextid, polls, failures>>

\* the watcher table of the Scanner and what is observed of its use
Watching == <<response_queue, watched, response, invoked>>

\* the input buffer and the last decoded Response of the Scanner
Reading == <<read_buffer, result>>

\* the device selection of Scanner.__init__
Opening == <<devs, device>>

\* the writers of the serial port
Writing == <<writer, iolock, wire>>

\* everything outside the GLGMonitor
ScannerVars ==
  <<Watching, Reading, Opening, Writing, error, assigned, titler, registry>>

\* the GLGMonitor and its polling
Monitor == <<Tracker, running, send_count, alarms, pending>>

\* GLGMonitor.start
Start ==
  /\ running' = TRUE
  /\ IF send_count = 0
     THEN /\ pending < MaxPending
          /\ pending' = pending + 1
          /\ send_count' = send_count + 1
     ELSE UNCHANGED <<pending, send_count>>
  /\ UNCHANGED <<Tracker, alarms, ScannerVars>>

\* GLGMonitor.stop
Stop ==
  /\ running' = FALSE
  /\ UNCHANGED <<Tracker, send_count, alarms, pending, ScannerVars>>

\* GLGMonitor.send_glg, called when an alarm set by delay_glg fires
SendGlg ==
  /\ alarms > 0
  /\ pending < MaxPending
  /\ alarms' = alarms - 1
  /\ pending' = pending + 1
  /\ send_count' = send_count + 1
  /\ UNCHANGED <<Tracker, running, ScannerVars>>

\* Scanner.read_scanner decodes one GLG response at time now' and calls the
\* GLG watcher, GLGMonitor.process; F is the set of sqlite statements that
\* may raise during this poll
ProcessWith(F) ==
  /\ pending > 0
  /\ \E step \in Steps, name \in Systems, sql \in {"0", "1"},
        mut \in {"0", "1"}, fail \in F :
       /\ (now + step) \div SecondsPerDay \in Days
       /\ (now + step) % SecondsPerDay <= Horizon
       /\ fail # "none" => failures < MaxFailures
       /\ LET glgresp == [TIME |-> now + step, NAME |-> name,
                          SQL |-> sql, MUT |-> mut]
              g == process(Self, glgresp, fail)
          IN  /\ now' = now + step
              /\ state' = g.state
              /\ reception' = g.reception
              /\ History' = g.History
              /\ LastSeen' = g.LastSeen
              /\ squelch' = g.squelch
              /\ mute' = g.mute
              /\ system_name' = g.system_name
              /\ receive_time' = g.receive_time
              /\ send_count' = g.send_count
              /\ alarms' = g.alarms
              /\ nextid' = g.nextid
              /\ fail # "none" => g.raised
              /\ failures' = IF g.raised THEN failures + 1 ELSE failures
  /\ pending' = pending - 1
  /\ polls' = polls + 1
  /\ UNCHANGED <<running, ScannerVars>>

\* a poll during which the store works
Process == ProcessWith({"none"})

\* a poll during which one sqlite statement raises sqlite3.Error
ProcessStoreError == ProcessWith({"insert", "lastseen"})

Next == Start \/ Stop \/ SendGlg \/ Process

\* the tracker with a working store
Spec == Init /\ [][Next]_vars

NextErr == Start \/ Stop \/ SendGlg \/ Process \/ ProcessStoreError

\* the tracker with a store whose statements may fail
SpecErr == Init /\ [][NextErr]_vars

\* the program is started again on the same database: GLGMonitor.__init__
\* with __initdb__; alarms and unanswered commands of the old process are gone
Restart ==
  /\ state' = IDLE
  /\ reception' = None
  /\ LastSeen' = initdb(History)
  /\ squelch' = FALSE
  /\ mute' = FALSE
  /\ system_name' = SysA
  /\ receive_time' = 0
  /\ running' = FALSE
  /\ send_count' = 0
  /\ alarms' = 0
  /\ pending' = 0
  /\ UNCHANGED <<History, now, nextid, polls, failures, ScannerVars>>

NextRestart == Start \/ Stop \/ SendGlg \/ Process \/ Restart

\* the tracker with a working store, restarted at arbitrary moments
SpecRestart == Init /\ [][NextRestart]_vars

\* the number of watchers in the table
Watchers(queue) == Cardinality(UNION {queue[n] : n \in Names})

\* Scanner.watch_command(command)
WatchCommand(command) ==
  /\ Watchers(watch_command(response_queue, command)) <= MaxWatchers
  /\ response_queue' = watch_command(response_queue, command)
  /\ watched' = command
  /\ UNCHANGED <<Monitor, response, invoked, Reading, Opening, Writing,
                 error, assigned, titler, registry>>

\* Scanner.read_scanner finds one complete line, a Response with CMD = cmd
ReadScanner(cmd) ==
  /\ LET r == read_scanner(response_queue, cmd)
     IN  /\ response_queue' = r.queue
         /\ invoked' = r.invoked
  /\ response' = cmd
  /\ UNCHANGED <<Monitor, watched, Reading, Opening, Writing, error,
                 assigned, titler, registry>>

NextScanner ==
  \/ \E command \in Commands : WatchCommand(command)
  \/ \E cmd \in ResponseCmds : ReadScanner(cmd)

\* the Scanner's watcher table under any calls of watch_command and any
\* responses
SpecScanner == Init /\ [][NextScanner]_vars

\* the watchers registered while lines are read
ReaderCommands ==
  {Command("*", "keep", "None"), Command("glg", "once", "None")}

\* the terminators in the input buffer
Terminators(buffer) ==
  Cardinality({k \in DOMAIN buffer : <<buffer[k]>> = NEWLINE})

\* Scanner.read_scanner when the serial port holds the lines of chunk: they
\* are added to the buffer (lines 279-281) and the buffer is read line by
\* line (283-297) until it holds no complete line or Response() raises or
\* does not return
ReadScannerLines(chunk) ==
  /\ error # "hang"
  /\ Terminators(read_buffer) + Len(chunk) <= MaxLines
  /\ LET st == read_lines([buffer |-> read_buffer \o Stream(chunk, NEWLINE[1]),
                           queue |-> response_queue, result |-> result,
                           response |-> response, invoked |-> invoked,
                           error |-> ""], NEWLINE[1])
     IN  /\ read_buffer' = st.buffer
         /\ response_queue' = st.queue
         /\ result' = st.result
         /\ response' = st.response
         /\ invoked' = st.invoked
         /\ error' = st.error
  /\ UNCHANGED <<Monitor, watched, Opening, Writing, assigned, titler, registry>>

\* Scanner.read_scanner finds one complete line, a Response with CMD = cmd,
\* and the callbacks it calls may register watchers
Dispatch(cmd) ==
  /\ LET d == dispatch(response_queue, cmd)
     IN  /\ response_queue' = d.queue
         /\ invoked' = d.calls
  /\ response' = cmd
  /\ UNCHANGED <<Monitor, watched, Reading, Opening, Writing, error,
                 assigned, titler, registry>>

NextDispatch ==
  \/ \E command \in ChainCommands : WatchCommand(command)
  \/ \E cmd \in ResponseCmds : Dispatch(cmd)

\* the watcher table under callbacks that register watchers
SpecDispatch == Init /\ [][NextDispatch]_vars

\* the lines the scanner sends in the stream that is read in pieces
ChunkLines == {<<"G", ",", "N", "G">>, <<"G">>, <<>>}

\* the pieces, cut at any two places, of the streams of up to MaxLines lines
Pieces ==
  UNION {{SubSeq(s, i, j) : i \in 1..(Len(s) + 1), j \in 0..Len(s)} :
           s \in {Stream(lines, NEWLINE[1]) :
                    lines \in SeqsUpTo(ChunkLines, MaxLines)}}

\* Scanner.read_scanner when the serial port holds the bytes of chunk, which
\* may end anywhere in a line
ReadScannerBytes(chunk) ==
  /\ error # "hang"
  /\ chunk # <<>>
  /\ read_buffer \o chunk \in Pieces
  /\ LET st == read_lines([buffer |-> read_buffer \o chunk,
                           queue |-> response_queue, result |-> result,
                           response |-> response, invoked |-> invoked,
                           error |-> ""], NEWLINE[1])
     IN  /\ read_buffer' = st.buffer
         /\ response_queue' = st.queue
         /\ result' = st.result
         /\ response' = st.response
         /\ invoked' = st.invoked
         /\ error' = st.error
  /\ UNCHANGED <<Monitor, watched, Opening, Writing, assigned, titler, registry>>

NextChunks ==
  \/ \E chunk \in Pieces : ReadScannerBytes(chunk)
  \/ \E command \in ReaderCommands : WatchCommand(command)

\* the Scanner reading a byte stream cut into reads at any place
SpecChunks == Init /\ [][NextChunks]_vars

\* the decimal numeral of i < 100, the text of the i-th token
Numeral(i) ==
  IF i < 10 THEN <<ToString(i)>>
  ELSE <<ToString(i \div 10), ToString(i % 10)>>

RECURSIVE Zeros(_)

\* a DSP_FORM of n characters
Zeros(n) == IF n = 0 THEN <<>> ELSE <<"0">> \o Zeros(n - 1)

RECURSIVE NumberedTokens(_, _)

\* the tokens numbered from to from + k - 1, each after a comma
NumberedTokens(from, k) ==
  IF k = 0 THEN <<>>
  ELSE <<",">> \o Numeral(from) \o NumberedTokens(from + 1, k - 1)

\* the STS lines: a DSP_FORM for 0 to 8 display lines and up to MaxTokens
\* tokens after it, token i (counted from 0) being the numeral of i
STSInputs ==
  {<<"S", "T", "S", ",">> \o Zeros(n) \o NumberedTokens(2, k) :
     n \in 0..8, k \in 0..MaxTokens}

\* Response(input) called by itself
CallResponse(input) ==
  /\ error # "hang"
  /\ LET r == Response(input)
     IN  /\ result' = r
         /\ error' = IF r.outcome = "response" THEN "" ELSE r.outcome
  /\ invoked' = EmptyBag
  /\ UNCHANGED <<Monitor, response_queue, watched, response, read_buffer,
                 Opening, Writing, assigned, titler, registry>>

NextReader ==
  \/ \E chunk \in {<<>>} \cup SeqsUpTo(Lines, MaxLines) :
        ReadScannerLines(chunk)
  \/ \E input \in Inputs : CallResponse(input)
  \/ \E command \in ReaderCommands : WatchCommand(command)

\* the Scanner reading and decoding any lines, under any watchers
SpecReader == Init /\ [][NextReader]_vars

NextSTS == \E input \in STSInputs : CallResponse(input)

\* the decoding of STS lines of every display form
SpecSTS == Init /\ [][NextSTS]_vars

----------------------------------------------------------------------------
(* watch_command and send_command called by two threads; the sets stored
   in _response_queue are objects, registry.sets[i] the value of object i
   and registry.keys[key] the object stored under key, 0 for no object *)

\* what a step of watch_command leaves alone
RegistryFrame ==
  <<Monitor, Watching, Reading, Opening, Writing, error, assigned, titler>>

\* the Commands the two threads watch and send: one command name, every
\* callback and userdata
ThreadCommands ==
  {Command("glg", cb, ud) : cb \in Callbacks, ud \in UserData}

\* the set now stored under key, empty when there is none
Stored(key) ==
  IF registry.keys[key] = 0 THEN {} ELSE registry.sets[registry.keys[key]]

\* the calls thread t has begun
Calls(t) == Cardinality(registry.calls[t].returned) +
            (IF registry.calls[t].at \in {"add", "setitem"} THEN 1 ELSE 0)

\* thread t calls watch_command(command), or send_command(command) which
\* calls it, with a Command it has not registered before: clist = self._response_queue[command.cmd] gives the object
\* stored under the key or, from __missing__, a new empty set that is
\* stored nowhere
GetItem(t, method, command) ==
  /\ registry.calls[t].at = "idle"
  /\ Calls(t) < MaxCalls
  /\ command \notin registry.calls[t].returned
  /\ LET stored == registry.keys[command.cmd]
         clist == IF stored # 0 THEN stored ELSE Len(registry.sets) + 1
     IN  registry' =
           [registry EXCEPT
              !.sets = IF stored # 0 THEN @ ELSE Append(@, {}),
              !.calls[t] = [@ EXCEPT !.at = "add", !.method = method,
                                     !.command = command, !.clist = clist]]
  /\ UNCHANGED RegistryFrame

\* clist.add(command)
SetAdd(t) ==
  /\ registry.calls[t].at = "add"
  /\ LET call == registry.calls[t]
     IN  registry' =
           [registry EXCEPT
              !.sets[call.clist] = add(@, call.command),
              !.calls[t].at = "setitem"]
  /\ UNCHANGED RegistryFrame

\* self._response_queue[command.cmd] = clist; watch_command returns
SetItem(t) ==
  /\ registry.calls[t].at = "setitem"
  /\ LET call == registry.calls[t]
     IN  registry' =
           [registry EXCEPT
              !.keys[call.command.cmd] = call.clist,
              !.calls[t] =
                 IF call.method = "send_command"
                 THEN [@ EXCEPT !.at = "writeline",
                                !.returned = @ \cup {call.command}]
                 ELSE [@ EXCEPT !.at = "idle", !.clist = 0,
                                !.returned = @ \cup {call.command}]]
  /\ UNCHANGED RegistryFrame

\* send_command: with self.iolock: self._writeline(cmdline.cmdstring)
Writeline(t) ==
  /\ registry.calls[t].at = "writeline"
  /\ registry' = [registry EXCEPT !.calls[t] = [@ EXCEPT !.at = "idle",
                                                        !.clist = 0]]
  /\ UNCHANGED RegistryFrame

NextThreads ==
  \E t \in Threads :
    \/ \E method \in {"watch_command", "send_command"},
          command \in ThreadCommands : GetItem(t, method, command)
    \/ SetAdd(t)
    \/ SetItem(t)
    \/ Writeline(t)

\* two threads that call watch_command and send_command at the same time
SpecThreads == Init /\ [][NextThreads]_vars

----------------------------------------------------------------------------
(* Titler: the thread that sends the stream's title to the server *)

\* what a Titler action leaves alone
TitlerFrame ==
  <<Monitor, Watching, Reading, Opening, Writing, assigned, registry>>

\* the None that put() is given to ask the thread to stop
NoTitle == "None"

\* the titles given to put()
Titles == {"title", NoTitle}

\* put(new_title): log "title: " + new_title, which raises TypeError for
\* None, then queue the title
TitlerPut(new_title) ==
  /\ Len(titler.title_queue) < MaxQueue
  /\ IF new_title = NoTitle
     THEN /\ error' = "TypeError"
          /\ UNCHANGED titler
     ELSE /\ error' = ""
          /\ titler' = [titler EXCEPT !.title_queue = Append(@, new_title)]
  /\ UNCHANGED TitlerFrame

\* a caller puts None on the title queue itself, the stop request that
\* run() looks for
TitlerQueuePut ==
  /\ Len(titler.title_queue) < MaxQueue
  /\ titler' = [titler EXCEPT !.title_queue = Append(@, NoTitle),
                              !.requested = TRUE]
  /\ UNCHANGED <<TitlerFrame, error>>

\* stop(): clear the flag the loop tests
TitlerStop ==
  /\ titler' = [titler EXCEPT !.running = FALSE, !.requested = TRUE]
  /\ UNCHANGED <<TitlerFrame, error>>

\* run(), its first statement: self._running = True
TitlerRun ==
  /\ titler.at = "start"
  /\ titler' = [titler EXCEPT !.running = TRUE, !.at = "while"]
  /\ UNCHANGED <<TitlerFrame, error>>

\* run(): while self._running
TitlerWhile ==
  /\ titler.at = "while"
  /\ titler' = [titler EXCEPT
                  !.at = IF titler.running THEN "get" ELSE "returned"]
  /\ UNCHANGED <<TitlerFrame, error>>

\* run(): new_title = self._title_queue.get(timeout=1); an empty queue
\* raises queue.Empty and the loop goes on, None clears the flag, a title
\* goes to update_title
TitlerGet ==
  /\ titler.at = "get"
  /\ titler' =
       IF titler.title_queue = <<>>
       THEN [titler EXCEPT !.at = "while"]
       ELSE IF Head(titler.title_queue) # NoTitle
       THEN [titler EXCEPT !.title_queue = Tail(@), !.at = "update_title"]
       ELSE [titler EXCEPT !.title_queue = Tail(@), !.running = FALSE,
                           !.at = "while"]
  /\ UNCHANGED <<TitlerFrame, error>>

\* update_title(title): the request to the server returns or raises a
\* RequestException that is caught
TitlerUpdateTitle ==
  /\ titler.at = "update_title"
  /\ titler' = [titler EXCEPT !.at = "while"]
  /\ UNCHANGED <<TitlerFrame, error>>

\* the steps of the Titler thread
TitlerThread ==
  TitlerRun \/ TitlerWhile \/ TitlerGet \/ TitlerUpdateTitle

NextTitler ==
  \/ \E new_title \in Titles : TitlerPut(new_title)
  \/ TitlerQueuePut
  \/ TitlerStop
  \/ TitlerRun
  \/ TitlerWhile
  \/ TitlerGet
  \/ TitlerUpdateTitle

\* the Titler thread once started, with the callers of put() and stop();
\* the thread is scheduled again and again, its callers need not call
SpecTitler == Init /\ [][NextTitler]_vars /\ WF_vars(TitlerThread)

\* the send_command calls begun whose newline is not yet written, and the
\* newlines written
Sends ==
  Cardinality({t \in Threads :
                 writer[t].at \in {"send_command", "writeline", "write",
                                   "newline"}})
  + Cardinality({i \in DOMAIN wire : <<wire[i]>> = NEWLINE})

\* what the writers leave alone
WriteFrame ==
  <<Monitor, response, invoked, Reading, Opening, error, assigned, titler, registry>>

\* context t calls Scanner.send_command(cmdline): watch_command, line 324
SendCommand(t, cmdline) ==
  /\ writer[t].at = "idle"
  /\ Sends < MaxSends
  /\ Watchers(watch_command(response_queue, cmdline)) <= MaxWatchers
  /\ response_queue' = watch_command(response_queue, cmdline)
  /\ watched' = cmdline
  /\ writer' = [writer EXCEPT ![t] = [at |-> "send_command",
                                      line |-> Bytes(cmdline.cmdstring),
                                      cmdline |-> cmdline]]
  /\ UNCHANGED <<iolock, wire, WriteFrame>>

\* with self.iolock: of send_command (line 325) and of _writeline (309)
Acquire(t) ==
  /\ writer[t].at \in {"send_command", "writeline"}
  /\ may_acquire(iolock, t)
  /\ iolock' = acquire(iolock, t)
  /\ writer' = [writer EXCEPT ![t].at = IF writer[t].at = "send_command"
                                        THEN "writeline" ELSE "write"]
  /\ UNCHANGED <<wire, response_queue, watched, WriteFrame>>

\* _writeline, line 310: self._serscanner.write(bytes(line, ...))
Write(t) ==
  /\ writer[t].at = "write"
  /\ wire' = wire \o writer[t].line
  /\ writer' = [writer EXCEPT ![t].at = "newline"]
  /\ UNCHANGED <<iolock, response_queue, watched, WriteFrame>>

\* _writeline, line 312: self._serscanner.write(_NEWLINE)
WriteNewline(t) ==
  /\ writer[t].at = "newline"
  /\ wire' = wire \o NEWLINE
  /\ writer' = [writer EXCEPT ![t].at = "flush"]
  /\ UNCHANGED <<iolock, response_queue, watched, WriteFrame>>

\* _writeline, line 314: self._serscanner.flushOutput()
FlushOutput(t) ==
  /\ writer[t].at = "flush"
  /\ writer' = [writer EXCEPT ![t].at = "exit_writeline"]
  /\ UNCHANGED <<iolock, wire, response_queue, watched, WriteFrame>>

\* the end of the with blocks of _writeline and of send_command
Release(t) ==
  /\ writer[t].at \in {"exit_writeline", "exit_send"}
  /\ iolock' = release(iolock)
  /\ writer' = [writer EXCEPT ![t] = IF writer[t].at = "exit_writeline"
                                     THEN [writer[t] EXCEPT !.at = "exit_send"]
                                     ELSE Idle]
  /\ UNCHANGED <<wire, response_queue, watched, WriteFrame>>

NextWrite ==
  \E t \in Threads :
    \/ \E cmdline \in Commands : SendCommand(t, cmdline)
    \/ Acquire(t)
    \/ Write(t)
    \/ WriteNewline(t)
    \/ FlushOutput(t)
    \/ Release(t)

\* two contexts that call send_command at any time
SpecWrite == Init /\ [][NextWrite]_vars

\* what is left alone when a ReceivingState is assigned or constructed
StateFrame ==
  <<reception, History, LastSeen, squelch, mute, system_name, receive_time,
    now, nextid, polls, failures, running, send_count, alarms, pending,
    Watching, Reading, Opening, Writing, titler, registry>>

\* mystate.state = newstate on a ReceivingState, as in _run_tests
SetState(newstate) ==
  /\ Len(assigned) < MaxAssign
  /\ assigned' = Append(assigned, newstate)
  /\ LET r == state_setter(state, newstate)
     IN  /\ state' = r.state
         /\ error' = r.error
  /\ UNCHANGED StateFrame

\* mystate = ReceivingState(initialstate); when the constructor raises
\* there is no new object and mystate stays what it was
NewReceivingState(initialstate) ==
  /\ Len(assigned) < MaxAssign
  /\ assigned' = Append(assigned, initialstate)
  /\ LET r == ReceivingState(initialstate)
     IN  /\ state' = IF r.error = "" THEN r.state ELSE state
         /\ error' = r.error
  /\ UNCHANGED StateFrame

NextState ==
  \/ \E newstate \in StateValues : SetState(newstate)
  \/ \E initialstate \in StateValues \cup {"None"} :
        NewReceivingState(initialstate)

\* a ReceivingState under any sequence of constructions and assignments
SpecState == Init /\ [][NextState]_vars

\* Scanner(device=candidates) is constructed
NewScanner(candidates) ==
  /\ devs' = candidates
  /\ LET r == select_device(candidates)
     IN  /\ device' = r.device
         /\ error' = r.error
  /\ UNCHANGED <<Monitor, Watching, Reading, Writing, assigned, titler, registry>>

NextOpen == \E candidates \in SeqsUpTo(Kinds, MaxDevs) : NewScanner(candidates)

\* the construction of a Scanner for any list of candidate devices
SpecOpen == Init /\ [][NextOpen]_vars

----------------------------------------------------------------------------
(* Vocabulary of the properties *)

\* the step is a call of process()
Polled == polls' = polls + 1

\* the call of process() raised
Raised == failures' = failures + 1

Ids(H) == {H[i].id : i \in DOMAIN H}

RowsOf(H, id) == {i \in DOMAIN H : H[i].id = id}

Open == reception # None

\* the poll of this step is active for a system other than the open one
OtherSystemActive ==
  Open /\ squelch' /\ SysId(system_name') # SysId(reception.name)

\* the poll of this step is active for the system of the open Reception
SameSystemActive ==
  Open /\ squelch' /\ SysId(system_name') = SysId(reception.name)

\* seconds from the last active poll of the open Reception to this poll
Elapsed == receive_time' - reception.last_active_time

----------------------------------------------------------------------------
(* C1  No Reception is inserted into History more than once: no later    *)
(* poll, and no failure in a later step of the same poll, writes a second  *)
(* row for a Reception object that already has one.                        *)
C1_NoSecondRow ==
  \A i, j \in DOMAIN History : History[i].id = History[j].id => i = j

(* C2 as stated: every Reception the tracker opened is written to History; *)
(* in particular once polling has stopped (stop() called, no alarm         *)
(* pending, no poll unanswered) none of the opened Receptions is missing.  *)
C2_EveryOpenedWritten ==
  (~running /\ alarms = 0 /\ pending = 0)
     => \A id \in 1..(nextid - 1) : id \in Ids(History)

(* C2 amended: no open Reception is ever replaced or cleared without its   *)
(* row being in History, and a row is inserted only at a poll that is      *)
(* either active (squelch open) for another system than the open           *)
(* Reception's or inactive in TIMEOUT after the idle timeout has expired;  *)
(* the row inserted is the open Reception's.                               *)
C2_NoneDropped ==
  [][ /\ (Open /\ reception'.id # reception.id)
           => reception.id \in Ids(History')
      /\ History' # History
           => /\ Polled
              /\ Open
              /\ Len(History') = Len(History) + 1
              /\ SubSeq(History', 1, Len(History)) = History
              /\ History'[Len(History')].id = reception.id
              /\ \/ OtherSystemActive
                 \/ ~squelch' /\ state = TIMEOUT /\ Elapsed > IDLETIME
    ]_vars

C2_Witness ==
  /\ Len(History) = 2
  /\ state = IDLE
  /\ ~Open
  /\ History[1].name # History[2].name

(* C3 as stated: a poll with squelch open and mute set never opens a       *)
(* Reception (it is handled like a squelch-closed poll).                   *)
C3_MutedNeverOpens ==
  [][ (Polled /\ squelch' /\ mute') => nextid' = nextid ]_vars

(* C3 amended: a poll counts as active exactly when squelch is open; the   *)
(* mute flag is stored but has no effect: in IDLE a poll opens a Reception *)
(* iff its squelch is open, and every poll leaves the tracker, History and *)
(* LastSeen exactly as the same poll with mute clear would.                *)
C3_ActiveIffSquelch ==
  [][ Polled =>
        LET unmuted == [TIME |-> receive_time', NAME |-> system_name',
                        SQL |-> IF squelch' THEN "1" ELSE "0", MUT |-> "0"]
            g == process(Self, unmuted, "none")
        IN  /\ state = IDLE => (squelch' <=> nextid' = nextid + 1)
            /\ state = IDLE => (squelch' <=> reception' # None)
            /\ state' = g.state
            /\ reception' = g.reception
            /\ History' = g.History
            /\ LastSeen' = g.LastSeen
    ]_vars

C3_Witness ==
  /\ squelch
  /\ mute
  /\ state = RECEIVING
  /\ Open
  /\ reception.starttime = receive_time
  /\ History = <<>>

(* C4  In IDLE an active poll opens a new Reception for the poll's system *)
(* with duration 0 and startTime equal to the poll time, moves the tracker *)
(* to RECEIVING and inserts nothing into History.                          *)
C4_IdleActiveOpens ==
  [][ (Polled /\ state = IDLE /\ squelch') =>
        /\ reception'.id = nextid
        /\ nextid' = nextid + 1
        /\ reception'.name = system_name'
        /\ reception'.duration = 0
        /\ reception'.starttime = receive_time'
        /\ state' = RECEIVING
        /\ History' = History
    ]_vars

C4_Witness ==
  /\ polls = 1
  /\ state = RECEIVING
  /\ reception.id = 1
  /\ reception.duration = 0
  /\ reception.starttime = now
  /\ History = <<>>

(* C5  In RECEIVING an inactive poll moves the tracker to TIMEOUT while    *)
(* the same Reception stays open and nothing is inserted into History.     *)
C5_ReceivingInactive ==
  [][ (Polled /\ state = RECEIVING /\ ~squelch') =>
        /\ state' = TIMEOUT
        /\ Open
        /\ reception'.id = reception.id
        /\ History' = History
        /\ nextid' = nextid
    ]_vars

C5_Witness ==
  /\ state = TIMEOUT
  /\ Open
  /\ ~squelch
  /\ polls = 2
  /\ History = <<>>

(* C6 as stated: at the RECEIVING to TIMEOUT transition the duration of    *)
(* the open Reception is unchanged, whatever the time of the inactive poll.*)
C6_DurationUnchanged ==
  [][ (Polled /\ state = RECEIVING /\ ~squelch') =>
        reception'.duration = reception.duration ]_vars

(* C6 amended: at the RECEIVING to TIMEOUT transition the duration of the  *)
(* open Reception is recomputed once more, as the seconds component of     *)
(* (time of the inactive poll - startTime); lastActiveTime is unchanged.   *)
C6_ExtendedToInactivePoll ==
  [][ (Polled /\ state = RECEIVING /\ ~squelch') =>
        /\ state' = TIMEOUT
        /\ reception'.id = reception.id
        /\ reception'.duration =
              (receive_time' - reception.starttime) % SecondsPerDay
        /\ reception'.last_active_time = reception.last_active_time
    ]_vars

C6_Witness ==
  /\ state = TIMEOUT
  /\ Open
  /\ reception.last_active_time = reception.starttime
  /\ reception.duration > 0
  /\ reception.duration = receive_time - reception.starttime

(* C7  In TIMEOUT with an inactive poll the Reception is finalized (row    *)
(* inserted, open reference cleared, state IDLE) iff now - lastActiveTime  *)
(* is strictly greater than idleWindow; otherwise the tracker stays in     *)
(* TIMEOUT with the same Reception, its duration unchanged, nothing        *)
(* written.                                                                *)
C7_TimeoutInactive ==
  [][ (Polled /\ state = TIMEOUT /\ ~squelch') =>
        IF Elapsed > IDLETIME
        THEN /\ History' = Append(History, Row(reception))
             /\ reception' = None
             /\ state' = IDLE
        ELSE /\ state' = TIMEOUT
             /\ reception' = reception
             /\ History' = History
    ]_vars

C7_Witness ==
  /\ state = TIMEOUT
  /\ Open
  /\ ~squelch
  /\ receive_time - reception.last_active_time = IDLETIME
  /\ History = <<>>

(* C8  In TIMEOUT an active poll for the open Reception's own system       *)
(* within the idle window continues that Reception: no row is written, no  *)
(* Reception is created, state returns to RECEIVING, lastActiveTime        *)
(* becomes the poll time and duration becomes now - startTime.             *)
C8_ResumeSameSystem ==
  [][ (Polled /\ state = TIMEOUT /\ SameSystemActive /\ Elapsed <= IDLETIME) =>
        /\ History' = History
        /\ nextid' = nextid
        /\ reception'.id = reception.id
        /\ state' = RECEIVING
        /\ reception'.last_active_time = receive_time'
        /\ reception'.duration = receive_time' - reception.starttime
    ]_vars

(* C9  In RECEIVING or TIMEOUT an active poll for another system than the  *)
(* open Reception's finalizes the open Reception within that poll (exactly *)
(* one History row for it) and opens a new Reception for the new system,   *)
(* leaving the tracker in RECEIVING with the new Reception open.           *)
C9_SwitchSystem ==
  [][ (Polled /\ state \in {RECEIVING, TIMEOUT} /\ OtherSystemActive) =>
        /\ Len(History') = Len(History) + 1
        /\ SubSeq(History', 1, Len(History)) = History
        /\ History'[Len(History')].id = reception.id
        /\ History'[Len(History')].name = reception.name
        /\ History'[Len(History')].starttime = reception.starttime
        /\ Cardinality(RowsOf(History', reception.id)) = 1
        /\ reception'.id = nextid
        /\ reception'.id \notin Ids(History')
        /\ reception'.name = system_name'
        /\ reception'.starttime = receive_time'
        /\ reception'.duration = 0
        /\ state' = RECEIVING
    ]_vars

C9_Witness ==
  /\ Len(History) = 1
  /\ state = RECEIVING
  /\ reception.id = 2
  /\ reception.name # History[1].name
  /\ reception.starttime = receive_time

C11_ChangedOnlyByFinalization ==
  [][ /\ \A n \in Systems :
            LastSeen'[n] # LastSeen[n] =>
              /\ Len(History') = Len(History) + 1
              /\ History'[Len(History')].name = n
              /\ LastSeen'[n] = History'[Len(History')].starttime
      /\ reception' # None =>
            LastSeen'[reception'.name] = reception'.lastseen
    ]_vars

(* C11 amended: LastSeen changes only when a Reception opens: a step that  *)
(* changes LastSeen[n] is a poll that opens a Reception for n and sets     *)
(* LastSeen[n] to its startTime; inserting the History row changes nothing *)
(* in LastSeen, so while a Reception is open the entry of its system       *)
(* already holds that Reception's startTime.                               *)
C11_ChangedOnlyByOpening ==
  [][ /\ \A n \in Systems :
            LastSeen'[n] # LastSeen[n] =>
              /\ Polled
              /\ nextid' = nextid + 1
              /\ reception'.id = nextid
              /\ reception'.name = n
              /\ LastSeen'[n] = reception'.starttime
      /\ (History' # History /\ nextid' = nextid) => LastSeen' = LastSeen
      /\ reception' # None =>
            LastSeen'[reception'.name] = reception'.starttime
    ]_vars

C11_Witness ==
  /\ Open
  /\ state = RECEIVING
  /\ Len(History) = 1
  /\ History[1].name # reception.name
  /\ LastSeen[reception.name] = reception.starttime
  /\ LastSeen[History[1].name] = History[1].starttime
  /\ reception.lastseen = NoTime

(* C12  Whenever a Reception opens, LastSeen of its system is set to its  *)
(* startTime in the same step, after the previous value (none if the       *)
(* system was never seen) has been read into the Reception's lastseen: so  *)
(* lastseen is the startTime of the previous Reception of that system and  *)
(* never the Reception's own startTime.                                    *)
C12_OpenReadsThenSets ==
  [][ nextid' = nextid + 1 =>
        /\ Polled
        /\ reception'.id = nextid
        /\ LastSeen'[reception'.name] = reception'.starttime
        /\ reception'.lastseen = LastSeen[reception'.name]
        /\ reception'.lastseen # reception'.starttime
        /\ LET prev == {i \in DOMAIN History' :
                          History'[i].name = reception'.name}
           IN  IF prev = {}
               THEN reception'.lastseen = NoTime
               ELSE /\ \E i \in prev :
                         reception'.lastseen = History'[i].starttime
                    /\ \A i \in prev :
                         History'[i].starttime <= reception'.lastseen
    ]_vars

C12_Witness ==
  /\ Open
  /\ Len(History) = 2
  /\ History[1].name = reception.name
  /\ History[2].name # reception.name
  /\ reception.lastseen = History[1].starttime
  /\ reception.lastseen < reception.starttime
  /\ LastSeen[reception.name] = reception.starttime

(* C13 as stated: at any restart the LastSeen table rebuilt from History   *)
(* (maximum startTime per system) equals, for every system, the LastSeen   *)
(* table that was maintained live before the restart.                      *)
C13_RebuildEqualsLive ==
  [][ Restart => LastSeen' = LastSeen ]_vars

(* C13 amended: at any restart the rebuilt LastSeen equals the live one    *)
(* for every system except that of a Reception still open at the restart:  *)
(* that Reception has no History row, and the rebuilt entry of its system  *)
(* is the value the live entry had before the Reception opened (its        *)
(* lastseen).  With no Reception open the two tables are equal.            *)
C13_RebuildEqualsLiveClosed ==
  [][ Restart =>
        /\ LastSeen' = initdb(History)
        /\ \A n \in Systems :
              LastSeen'[n] = IF Open /\ reception.name = n
                             THEN reception.lastseen
                             ELSE LastSeen[n]
    ]_vars

C13_Witness ==
  /\ ~Open
  /\ state = IDLE
  /\ Len(History) = 2
  /\ History[1].name # History[2].name
  /\ nextid > 3
  /\ pending = 0
  /\ alarms = 0
  /\ \A n \in Systems : LastSeen[n] # NoTime
  /\ \A i \in DOMAIN History : LastSeen[History[i].name] = History[i].starttime

(* C14  While a Reception stays open its duration never decreases from one *)
(* poll to the next, whatever the length of the session, and whenever the  *)
(* poll extends it (the Reception was active at the previous poll, or the  *)
(* poll is active for its system) it equals now - startTime.               *)
C14_DurationMonotone ==
  [][ (Polled /\ Open /\ reception'.id = reception.id) =>
        /\ reception'.duration >= reception.duration
        /\ (reception.last_active_state \/ SameSystemActive)
              => reception'.duration = receive_time' - reception.starttime
    ]_vars

(* C15  While running is true the polling cadence never stalls: after      *)
(* every call of process() the next status poll has been scheduled (an     *)
(* alarm for send_glg is pending) or, at least, a status command is still  *)
(* unanswered whose response will schedule it.                             *)
C15_CadenceNeverStalls ==
  [][ (Polled /\ running) => (alarms' > alarms \/ pending' > 0) ]_vars

(* C16  Once stop() has been called, and until start() is called again,    *)
(* no further status command is sent to the scanner, whatever alarm was    *)
(* already scheduled.                                                      *)
C16_NoSendAfterStop ==
  [][ (~running /\ ~running') => pending' <= pending ]_vars

(* C17  A failing History insert or LastSeen upsert does not unwind past   *)
(* the poll handler: no call of process() raises, and after every call     *)
(* made while running the next status poll is scheduled (or a status       *)
(* command is still unanswered).                                           *)
C17_PollSurvivesStoreError ==
  [][ Polled =>
        /\ ~Raised
        /\ running => (alarms' > alarms \/ pending' > 0)
    ]_vars

(* C18  When a response for command X is dispatched, every watcher         *)
(* registered under X is called exactly once for it, and afterwards a      *)
(* watcher is registered iff its callback returned False: a one-shot       *)
(* watcher is gone after its first call, a persistent one stays and is     *)
(* called again for every later response for X.                            *)
C18_WatchersCalledOnce ==
  [][ \A cmd \in ResponseCmds :
        (ReadScanner(cmd) /\ response_queue[cmd] # {}) =>
           /\ BagToSet(invoked') = response_queue[cmd]
           /\ \A w \in response_queue[cmd] : CopiesIn(w, invoked') = 1
           /\ response_queue'[cmd] =
                 {w \in response_queue[cmd] : ~Returns(w.callback)}
           /\ \A n \in Names \ {cmd} : response_queue'[n] = response_queue[n]
    ]_vars

C18_Witness ==
  /\ response = "GLG"
  /\ Cardinality(BagToSet(invoked)) = 2
  /\ \E w \in BagToSet(invoked) : w.callback = "once" /\ w.cmd = "GLG"
  /\ \E w \in BagToSet(invoked) : w.callback = "keep" /\ w.cmd = "GLG"
  /\ Cardinality(response_queue["GLG"]) = 1
  /\ \A w \in response_queue["GLG"] :
        w.callback = "keep" /\ CopiesIn(w, invoked) = 1

(* C19  A response whose command has no registered watcher (also when its  *)
(* one-shot watchers have all been removed) is delivered to the watchers   *)
(* registered under '*', each called once, and is dropped without any call *)
(* when there are none; a response whose command has a watcher is never    *)
(* delivered to the '*' watchers.                                          *)
C19_DefaultWatchers ==
  [][ \A cmd \in ResponseCmds :
        ReadScanner(cmd) =>
          IF response_queue[cmd] = {}
          THEN /\ BagToSet(invoked') = response_queue["*"]
               /\ \A w \in response_queue["*"] : CopiesIn(w, invoked') = 1
               /\ response_queue["*"] = {} =>
                     (invoked' = EmptyBag /\ response_queue' = response_queue)
          ELSE /\ \A w \in BagToSet(invoked') : w.cmd = cmd
               /\ response_queue'["*"] = response_queue["*"]
    ]_vars

C19_Witness ==
  /\ response = "GLG"
  /\ response_queue["GLG"] = {}
  /\ watched.cmd = "GLG"
  /\ watched.callback = "once"
  /\ invoked # EmptyBag
  /\ \A w \in BagToSet(invoked) : w.cmd = "*"

(* C20  watch_command has set semantics keyed on the four components of a  *)
(* Command: after watch_command(c) the watchers of c.cmd are the previous  *)
(* ones and c (once, also when an equal Command was registered before),    *)
(* any two Commands that differ in a component being both registered; a    *)
(* Command without a callback is not registered.                           *)
C20_WatchSetSemantics ==
  [][ \A c \in Commands :
        WatchCommand(c) =>
          response_queue'[c.cmd] =
             IF c.callback = "None" THEN response_queue[c.cmd]
             ELSE response_queue[c.cmd] \cup {c}
    ]_vars

(* C29  Scanner(device=candidates) uses the first candidate, in the order  *)
(* given, that is a writable character device, skipping the candidates     *)
(* that are missing or unsuitable; the construction fails only when no     *)
(* candidate is suitable.                                                  *)
C29_FirstSuitableDevice ==
  devs # <<>> =>
    LET ok == {i \in DOMAIN devs : devs[i] = "chr_rw"}
    IN  IF ok = {}
        THEN device = NoDevice /\ error # ""
        ELSE /\ error = ""
             /\ device \in ok
             /\ \A i \in ok : device <= i

(* C30 as stated  After stop(), and until start(), the state, the open     *)
(* Reception, History and LastSeen stay exactly as they were at the moment *)
(* of stop(), whatever event occurs.                                       *)
C30_FrozenAfterStop ==
  [][ (~running /\ ~running') =>
        UNCHANGED <<state, reception, History, LastSeen>> ]_vars

(* C30  stop() itself changes nothing but the running flag, and a response *)
(* processed while the monitor is stopped schedules no further poll; the   *)
(* response is still processed, so the state, the open Reception, History  *)
(* and LastSeen may change after stop().                                   *)
C30_StopOnlyEndsRearming ==
  [][ /\ (running' # running /\ ~running') =>
            UNCHANGED <<Tracker, send_count, alarms, pending>>
      /\ (Polled /\ ~running) => (alarms' = alarms /\ ~running')
    ]_vars

\* the only response so far was processed after stop() and opened a Reception
C30_Witness ==
  /\ ~running
  /\ polls = 1
  /\ alarms = 0
  /\ pending = 0
  /\ state = RECEIVING
  /\ reception # None

\* p is the beginning of w
IsPrefix(p, w) == Len(p) <= Len(w) /\ SubSeq(w, 1, Len(p)) = p

\* the lines send_command can write, each with its terminator
WrittenLines == {Bytes(line) \o NEWLINE : line \in CmdStrings}

RECURSIVE WholeLines(_)

\* w is a sequence of complete lines
WholeLines(w) ==
  \/ w = <<>>
  \/ \E l \in WrittenLines :
       IsPrefix(l, w) /\ WholeLines(SubSeq(w, Len(l) + 1, Len(w)))

\* w is a sequence of complete lines followed by the beginning of one line
LinesThenPart(w) ==
  \E k \in 0..Len(w) :
    /\ WholeLines(SubSeq(w, 1, k))
    /\ \E l \in WrittenLines : IsPrefix(SubSeq(w, k + 1, Len(w)), l)

(* C21  Whatever the interleaving of two contexts that call send_command,  *)
(* the bytes written to the device are whole lines, each the text of one   *)
(* command followed by its CR: while one context is between its two writes *)
(* the device has received its text last and no other context writes, and  *)
(* when no context is writing the device has received only complete lines. *)
C21_LinesNotInterleaved ==
  /\ LinesThenPart(wire)
  /\ Cardinality({t \in Threads :
                    writer[t].at \in {"write", "newline", "flush"}}) <= 1
  /\ \A t \in Threads :
        writer[t].at = "newline" =>
          /\ Len(wire) >= Len(writer[t].line)
          /\ SubSeq(wire, Len(wire) - Len(writer[t].line) + 1, Len(wire))
               = writer[t].line
          /\ WholeLines(SubSeq(wire, 1, Len(wire) - Len(writer[t].line)))
  /\ (\A t \in Threads : writer[t].at \notin {"newline"}) => WholeLines(wire)

\* one context has written its text and not yet the CR while the other one,
\* with another command, waits for the lock
C21_Witness ==
  /\ writer[1].at = "newline"
  /\ writer[2].at = "send_command"
  /\ writer[2].line = Bytes("*")
  /\ iolock = [owner |-> 1, count |-> 2]
  /\ wire = <<"g", "l", "g">>

\* the tokens of the last line given to Response()
Tokens == split(rstrip(result.input, "\r"), ",")

\* Response() was called with a line that is not empty
LineDecoded ==
  result.outcome # "none" /\ result.input \notin {NoneInput, <<>>}

(* C22  Decoding a line that is not empty and has fewer than 2 tokens,     *)
(* that is no comma, raises ScannerDecodeError and makes no Response.      *)
C22_FewTokensFail ==
  (LineDecoded /\ \A k \in DOMAIN result.input : result.input[k] # ",")
    => (result.outcome = "ScannerDecodeError" /\ invoked = EmptyBag)

\* read_scanner has read the line ERR
C22_Witness ==
  /\ result.input = <<"E", "R", "R">>
  /\ result.outcome = "ScannerDecodeError"
  /\ error = "ScannerDecodeError"

(* C23 as stated  Decoding None or an empty line raises the decode error:  *)
(* no Response is made and no watcher is called.                           *)
C23_NullAndEmptyFail ==
  (result.outcome # "none" /\ result.input \in {NoneInput, <<>>})
    => (result.outcome = "ScannerDecodeError" /\ invoked = EmptyBag)

(* C23  Decoding None raises the decode error.  Decoding an empty line     *)
(* makes a Response with CMD '' and status DECODEERROR and no other field; *)
(* read_scanner dispatches it like any other: the watchers under '' or,    *)
(* if there is none, the wildcard watchers are called.                     *)
C23_NullFailsEmptyIsDispatched ==
  [][ /\ (result'.outcome # "none" /\ result'.input = NoneInput)
            => result'.outcome = "ScannerDecodeError"
      /\ (result'.outcome # "none" /\ result'.input = <<>>)
            => /\ result'.outcome = "response"
               /\ result'.CMD = ""
               /\ result'.status = DECODEERROR
               /\ DOMAIN result'.attrs = {"CMD"}
      /\ (ReadScannerLines(<< <<>> >>) /\ read_buffer = <<>>)
            => /\ error' = ""
               /\ invoked' = SetToBag(response_queue[
                                clist_key(response_queue, "")])
    ]_vars

\* an empty line was read and a wildcard watcher was called for it
C23_Witness ==
  /\ result.input = <<>>
  /\ result.status = DECODEERROR
  /\ response = ""
  /\ invoked = SetToBag({Command("*", "keep", "None")})

(* C24  A line NAME,X with X one of OK, NG, FER, ORER decodes to status X  *)
(* with no data field; every other line of 2 tokens or more decodes to     *)
(* status RESP.                                                            *)
C24_AckOrRespStatus ==
  (LineDecoded /\ Len(Tokens) >= 2) =>
    /\ result.outcome = "response"
    /\ IF Len(Tokens) = 2 /\ Str(Tokens[2]) \in AckCodes
       THEN /\ result.status = Str(Tokens[2])
            /\ DOMAIN result.attrs \subseteq {"CMD", "RESP"}
       ELSE result.status = RESP

(* C25  The CMD of every decoded line is its first token in upper case,    *)
(* whichever decoder handled the line, and the line is dispatched to the   *)
(* watchers under that name.                                               *)
C25_CmdIsUpperCase ==
  (LineDecoded /\ result.outcome = "response") =>
    /\ result.CMD = Str(upper(Tokens[1]))
    /\ invoked # EmptyBag => response = Str(upper(Tokens[1]))

\* the VARLIST the generic decoder uses for the last line
VarlistOf(cmd) ==
  IF cmd \in DOMAIN Handlers THEN Handlers[cmd].VARLIST ELSE <<"CMD">>

\* the name of position i of a VARLIST, VAR past its end
VarAt(VARLIST, i) == IF i <= Len(VARLIST) THEN VARLIST[i] ELSE "VAR"

(* C26  When the generic decoder assigns the tokens to the names of the    *)
(* VARLIST, the first token of a name is stored under the name and the     *)
(* k-th later token of the same name (VAR past the end of the list) under  *)
(* the name followed by k.                                                 *)
C26_NamesInOrder ==
  (/\ LineDecoded
   /\ Len(Tokens) >= 2
   /\ ~(Len(Tokens) = 2 /\ Str(Tokens[2]) \in AckCodes)
   /\ Str(upper(Tokens[1])) # "STS")
    => /\ result.outcome = "response"
       /\ LET VARLIST == VarlistOf(Str(upper(Tokens[1])))
          IN  \A i \in DOMAIN Tokens :
                LET var == VarAt(VARLIST, i)
                    k == Cardinality({j \in 1..(i - 1) :
                                        VarAt(VARLIST, j) = var})
                    name == IF k = 0 THEN var ELSE var \o ToString(k)
                IN  /\ name \in DOMAIN result.attrs
                    /\ result.attrs[name] = Str(Tokens[i])

(* C27  read_scanner never raises to its caller because of a line that     *)
(* does not decode: it returns with every complete line of the buffer      *)
(* read, the lines after the failing one decoded and dispatched.           *)
C27_ReadSurvivesBadLine ==
  [][ (\E chunk \in {<<>>} \cup SeqsUpTo(Lines, MaxLines) :
         ReadScannerLines(chunk))
        => (error' = "" /\ Terminators(read_buffer') = 0)
    ]_vars

(* C31  send_command registers the watcher of the command before the      *)
(* first byte of the command is written: from the moment a context is      *)
(* about to write, the Command it sends, when it has a callback, is in the *)
(* watcher table under its command name.                                   *)
C31_WatcherBeforeBytes ==
  \A t \in Threads :
    (/\ writer[t].at \in {"writeline", "write", "newline", "flush",
                          "exit_writeline", "exit_send"}
     /\ writer[t].cmdline.callback # "None")
      => writer[t].cmdline \in response_queue[writer[t].cmdline.cmd]

\* the position of the last terminator in the bytes, 0 when there is none
LastTerminator(bytes) ==
  LET at == {k \in DOMAIN bytes : <<bytes[k]>> = NEWLINE}
  IN  IF at = {} THEN 0 ELSE CHOOSE k \in at : \A j \in at : j <= k

\* the last complete line in the bytes, which hold a terminator
LastLine(bytes) ==
  LET whole == SubSeq(bytes, 1, LastTerminator(bytes) - 1)
  IN  SubSeq(whole, LastTerminator(whole) + 1, Len(whole))

(* C32  However the stream is cut into reads, each call of read_scanner    *)
(* slices off every complete line of the buffer followed by the bytes      *)
(* read: the bytes after the last CR, and only they, stay in the buffer,   *)
(* and the last line handled is the last complete line.                    *)
C32_ChunkingDoesNotMatter ==
  [][ \A chunk \in Pieces :
        ReadScannerBytes(chunk) =>
          LET all == read_buffer \o chunk
          IN  /\ read_buffer' = SubSeq(all, LastTerminator(all) + 1, Len(all))
              /\ LastTerminator(all) > 0 => result'.input = LastLine(all)
    ]_vars

(* C33  The watchers called for a response are those in the set when the   *)
(* dispatch begins: a watcher that a callback registers while the response *)
(* is dispatched is not called for it, is in the table afterwards, and the *)
(* watchers in the table are the ones called for the next response.        *)
C33_SnapshotDispatch ==
  [][ \A cmd \in ResponseCmds :
        Dispatch(cmd) =>
          LET key == clist_key(response_queue, cmd)
          IN  /\ invoked' = SetToBag(response_queue[key])
              /\ \A entry \in response_queue[key] :
                    entry.callback = "chain" =>
                      registers(entry) \in
                        response_queue'[registers(entry).cmd]
    ]_vars

(* C34  Two active polls of the same system more than IDLETIME seconds     *)
(* apart, with no active poll between them, never belong to the same       *)
(* Reception: the later one opens a new Reception.                         *)
C34_GapOpensNewReception ==
  [][ (Polled /\ SameSystemActive /\ Elapsed > IDLETIME)
        => (reception' # None /\ reception'.id # reception.id) ]_vars

\* the names after the display lines in an STS response
AfterLines ==
  <<"SQL", "MUT", "RSV", "BAT", "WAT", "SIG_LVL", "BK_COLOR", "BK_DIMMER">>

\* the names of display line k
LineNames(k) == {"L" \o ToString(k) \o "_CHAR", "L" \o ToString(k) \o "_MODE"}

\* the name of the token at position p, counted from 0, of an STS response
\* whose DSP_FORM has n characters
NameAt(n, p) ==
  IF p = 0 THEN "CMD"
  ELSE IF p = 1 THEN "DSP_FORM"
  ELSE IF p <= 2 * n + 1
  THEN "L" \o ToString((p \div 2)) \o (IF p % 2 = 0 THEN "_CHAR" ELSE "_MODE")
  ELSE AfterLines[p - 2 * n - 1]

(* C35  For an STS response whose DSP_FORM has n characters, 0 <= n <= 8,  *)
(* the tokens 2 .. 2n+1 are stored as L1_CHAR, L1_MODE, ..., Ln_CHAR,      *)
(* Ln_MODE, the token 2n+2 as SQL and the following ones as MUT, RSV, BAT, *)
(* ..., and no name of a display line after the n-th is set.               *)
C35_StsLinesByForm ==
  (result.outcome # "none" /\ result.input \in STSInputs) =>
    LET n == Len(Tokens[2])
    IN  /\ result.outcome = "response"
        /\ \A p \in 0..(Len(Tokens) - 1) :
              p <= 2 * n + 1 + Len(AfterLines) =>
                /\ NameAt(n, p) \in DOMAIN result.attrs
                /\ result.attrs[NameAt(n, p)] = Str(Tokens[p + 1])
        /\ \A k \in (n + 1)..8 : LineNames(k) \cap DOMAIN result.attrs = {}

\* an STS response for two display lines with SQL and MUT after them
C35_Witness ==
  /\ result.outcome = "response"
  /\ result.input \in STSInputs
  /\ result.attrs["DSP_FORM"] = "00"
  /\ DOMAIN result.attrs =
       {"CMD", "DSP_FORM", "L1_CHAR", "L1_MODE", "L2_CHAR", "L2_MODE",
        "SQL", "MUT"}
  /\ result.attrs["L2_MODE"] = "5"
  /\ result.attrs["SQL"] = "6"
  /\ result.attrs["MUT"] = "7"

(* C36: once stop() has been called or None has been queued, the Titler
   thread leaves its loop in the end, however the request falls among the
   thread's first statement and the put() calls. *)
C36_WorkerLeavesLoop == titler.requested ~> titler.at = "returned"

(* C37: decoding ends for every line of 2 tokens or more, with a handler
   of its own or with the generic one: the loop that gives the tokens
   their names, the search for a free NAME<k> included, finishes and a
   Response is returned. *)
C37_DecodingTerminates ==
  (LineDecoded /\ Len(Tokens) >= 2)
    => (result.outcome = "response" /\ error # "hang")

(* C38: after every call of process(), returned or raised, the tracker
   is in IDLE exactly when it holds no open Reception, and in RECEIVING
   and TIMEOUT the open Reception it holds has no row in History yet. *)
C38_StateMatchesReception ==
  /\ (state = IDLE) <=> (reception = None)
  /\ state \in {RECEIVING, TIMEOUT}
       => (reception # None /\ reception.id \notin Ids(History))

(* C39: there is at most one polling chain: at every moment the status
   polls scheduled by an alarm and those sent and not yet answered are
   together at most one, however start(), stop(), the alarms and the
   responses fall. *)
C39_OnePollingChain == alarms + pending <= 1

(* C40: no registration is lost when two threads call watch_command or
   send_command at the same time: once both calls have returned, for two
   distinct Commands of the same command name, both watchers are in the
   table under that name. *)
C40_NoRegistrationLost ==
  \A t \in Threads : \A u \in Threads \ {t} :
    \A c \in registry.calls[t].returned, d \in registry.calls[u].returned :
      (c # d /\ c.cmd = d.cmd)
        => (c \in Stored(c.cmd) /\ d \in Stored(d.cmd))

(* C28  The state is always one of IDLE, RECEIVING, TIMEOUT and exactly    *)
(* one of is_idle, is_receiving, is_timeout is true; assigning another     *)
(* value raises ValueError and leaves the state unchanged; an instance     *)
(* created without an initial state starts in IDLE.                        *)
C28_StateAlwaysValid ==
  [][ /\ state' \in States
      /\ Cardinality({p \in {"idle", "receiving", "timeout"} :
             \/ p = "idle" /\ is_idle(state')
             \/ p = "receiving" /\ is_receiving(state')
             \/ p = "timeout" /\ is_timeout(state')}) = 1
      /\ \A v \in StateValues \ States :
            SetState(v) => (state' = state /\ error' = "ValueError")
      /\ \A v \in States : SetState(v) => (state' = v /\ error' = "")
      /\ NewReceivingState("None") => (state' = IDLE /\ error' = "")
    ]_vars

C28_Witness ==
  /\ error = "ValueError"
  /\ Len(assigned) = 2
  /\ assigned[1] = TIMEOUT
  /\ assigned[2] = "Wrong"
  /\ state = TIMEOUT
  /\ is_timeout(state)
  /\ ~is_idle(state)
  /\ ~is_receiving(state)

====
